---------------------------- MODULE Spec2Model ----------------------------
(***************************************************************************)
(* Energy-aware route synthesis for a heavy electric truck                 *)
(* (Muurray/ElectricTruckRouting).                                         *)
(*                                                                         *)
(* Python floats are modelled as exact rationals <<n, d>> in lowest terms  *)
(* with d > 0, so that every arithmetic expression of the source is        *)
(* translated operator by operator.  State of charge is a fraction, so     *)
(* 0.80 is <<4, 5>>.                                                       *)
(***************************************************************************)
EXTENDS Integers, Sequences, FiniteSets, TLC

VARIABLES
    \* ---- ChargingStationManager.charging_time_minutes / simulate_charging_event
    lastTime,       \* the last call to charging_time_minutes and what it returned
    lastEvent,      \* the last call to simulate_charging_event and the dict it returned
    stationPower,   \* rated power of the charger the sessions run at
    \* ---- ChargingManager / ChargingStationManager: the station catalog
    mgr,            \* ChargingManager._mgr: whether it is set, its graph and its stations
    lastCatalogCall,\* the last catalog call, the error it raised and what it returned
    api,            \* which class the caller holds: the wrapper or the manager itself
    everLoaded,     \* history: some load_eafo_dataset call has succeeded
    \* ---- the road graph, the truck model and the route search
    G,              \* the MultiDiGraph: its edges in insertion order
    stationAt,      \* node of the 350 kW charging station along the road (0: none)
    temperature_loss_factor,   \* ElectricTruckModel.temperature_loss_factor
    evals,          \* the compute_edge_energy calls of the evaluations, one per thread
    pc,             \* position of the search: "idle", "sweep", "done" or "optimized"
    start_node,     \* run_nsga: start
    end_node,       \* run_nsga: end
    widx,           \* run_nsga: index of the next weight set of the loop
    solutions,      \* run_nsga: the list solutions
    result,         \* the list run_nsga returned
    evaluated,      \* the last compute_route_energy call and what it returned
    optimized,      \* the last optimize_route call and what it returned
    \* ---- ev_truck_routing_germany.py, a script run from top to bottom
    script          \* its position, its route points and the values it has bound

chargingVars == <<lastTime, lastEvent, stationPower>>

catalogVars == <<mgr, lastCatalogCall, api, everLoaded>>

truckVars == <<temperature_loss_factor, evals>>

routeVars == <<G, stationAt, pc, start_node, end_node, widx, solutions, result, evaluated>>

optimizeVars == <<optimized>>

scriptVars == <<script>>

vars == <<lastTime, lastEvent, stationPower, mgr, lastCatalogCall, api, everLoaded,
          G, stationAt, temperature_loss_factor, evals, pc, start_node, end_node, widx,
          solutions, result, evaluated, optimized, script>>

-----------------------------------------------------------------------------
(* Exact rational arithmetic standing for the float arithmetic of the source *)

Abs(x) == IF x < 0 THEN -x ELSE x

RECURSIVE GCD(_, _)
GCD(a, b) == IF b = 0 THEN a ELSE GCD(b, a % b)

\* the rational n/d in lowest terms, sign carried by the numerator
Rat(n, d) ==
    LET g == GCD(Abs(n), Abs(d))
        s == IF d < 0 THEN -1 ELSE 1
    IN  <<(s * n) \div g, (s * d) \div g>>

RInt(n) == <<n, 1>>

RZero == <<0, 1>>

RNeg(a) == <<-a[1], a[2]>>

RAdd(a, b) ==
    LET g == GCD(a[2], b[2])
    IN  Rat(a[1] * (b[2] \div g) + b[1] * (a[2] \div g), (a[2] \div g) * b[2])

RSub(a, b) == RAdd(a, RNeg(b))

RMul(a, b) ==
    LET g1 == GCD(Abs(a[1]), b[2])
        g2 == GCD(Abs(b[1]), a[2])
    IN  Rat((a[1] \div g1) * (b[1] \div g2), (a[2] \div g2) * (b[2] \div g1))

\* a / b for b # 0 (a zero divisor is a ZeroDivisionError, handled by the callers)
RDiv(a, b) == RMul(a, IF b[1] < 0 THEN <<-b[2], -b[1]>> ELSE <<b[2], b[1]>>)

\* comparisons, over the least common denominator
RLe(a, b) ==
    LET g == GCD(a[2], b[2])
    IN  a[1] * (b[2] \div g) <= b[1] * (a[2] \div g)

RLt(a, b) ==
    LET g == GCD(a[2], b[2])
    IN  a[1] * (b[2] \div g) < b[1] * (a[2] \div g)

RMin(a, b) == IF RLe(a, b) THEN a ELSE b

RMax(a, b) == IF RLe(a, b) THEN b ELSE a

\* a percentage as a fraction: Pct(80) is 0.80
Pct(p) == Rat(p, 100)

-----------------------------------------------------------------------------
(* ChargingStationManager: battery parameters set by __init__              *)

valid_power_levels_kw == {150, 300, 350, 750}

charger_battery_capacity_kwh == 600

cc_cutoff_soc == Pct(80)

cc_efficiency == Pct(93)

cv_efficiency == Pct(88)

\* "Approximate average power = 40% of charger rating"
cv_power_fraction == Pct(40)

-----------------------------------------------------------------------------
(* ChargingStationManager.charging_time_minutes                            *)

\* the CC phase with the charging efficiency left out
CcTimeHoursNoEfficiency(soc1, soc2, power) ==
    IF RLt(soc1, cc_cutoff_soc)
    THEN RDiv(RMul(RSub(RMin(soc2, cc_cutoff_soc), soc1),
                   RInt(charger_battery_capacity_kwh)), RInt(power))
    ELSE RZero

CcTimeHours(soc1, soc2, power) ==
    IF RLt(soc1, cc_cutoff_soc)
    THEN LET soc_cc_end == RMin(soc2, cc_cutoff_soc)
             energy_added_kwh ==
                 RMul(RSub(soc_cc_end, soc1), RInt(charger_battery_capacity_kwh))
         IN  RDiv(energy_added_kwh, RMul(RInt(power), cc_efficiency))
    ELSE RZero

\* the CV phase charged from soc1 even when soc1 lies below the cutoff
CvTimeHoursFromInitial(soc1, soc2, power) ==
    IF RLt(cc_cutoff_soc, soc2)
    THEN RDiv(RMul(RSub(soc2, soc1), RInt(charger_battery_capacity_kwh)),
              RMul(RMul(RInt(power), cv_power_fraction), cv_efficiency))
    ELSE RZero

\* the CV phase entered on the wrong test (soc1 instead of soc2 against the cutoff)
CvTimeHoursWrongGuard(soc1, soc2, power) ==
    IF RLt(cc_cutoff_soc, soc1)
    THEN RDiv(RMul(RSub(soc2, soc1), RInt(charger_battery_capacity_kwh)),
              RMul(RMul(RInt(power), cv_power_fraction), cv_efficiency))
    ELSE RZero

CvTimeHours(soc1, soc2, power) ==
    IF RLt(cc_cutoff_soc, soc2)
    THEN LET soc1_cv == RMax(soc1, cc_cutoff_soc)
             energy_added_kwh_cv ==
                 RMul(RSub(soc2, soc1_cv), RInt(charger_battery_capacity_kwh))
             average_cv_power == RMul(RInt(power), cv_power_fraction)
         IN  RDiv(energy_added_kwh_cv, RMul(average_cv_power, cv_efficiency))
    ELSE RZero

\* The early return of the no-op case
NoOpMinutes(soc_initial, soc_target) == RZero

\* The value returned: minutes as a rational.  No test of the power against
\* valid_power_levels_kw is made anywhere in the method.
charging_time_minutes(soc_initial, soc_target, charger_power_kw) ==
    IF RLe(soc_target, soc_initial)
    THEN NoOpMinutes(soc_initial, soc_target)
    ELSE LET total_hours == RAdd(CcTimeHours(soc_initial, soc_target, charger_power_kw),
                                 CvTimeHours(soc_initial, soc_target, charger_power_kw))
         IN  RMul(total_hours, RInt(60))

\* The dict returned by simulate_charging_event
simulate_charging_event(soc_initial, target_soc, station_power_kw) ==
    [soc_final        |-> target_soc,
     charging_minutes |-> charging_time_minutes(soc_initial, target_soc, station_power_kw),
     energy_added_kwh |-> RMul(RSub(target_soc, soc_initial),
                               RInt(charger_battery_capacity_kwh))]

-----------------------------------------------------------------------------
(* Calls of the charging model with inputs from small sets                 *)

\* SOC values of the sessions, in percent: below, at and above the CC cutoff
SocLevels == {0, 20, 50, 80, 90, 100}

\* charger ratings handed to the model: supported levels and one that
\* valid_power_levels_kw does not list
PowerLevels == {150, 350, 200}

NoTimeCall ==
    [called |-> FALSE, raised |-> FALSE, soc_initial |-> RZero, soc_target |-> RZero,
     power |-> 0, time_hours_cc |-> RZero, time_hours_cv |-> RZero, minutes |-> RZero]

NoEvent ==
    [called |-> FALSE, raised |-> FALSE, soc_initial |-> RZero, soc_target |-> RZero,
     power |-> 0, soc_final |-> RZero, charging_minutes |-> RZero,
     energy_added_kwh |-> RZero]

ChargingFresh ==
    /\ lastTime = NoTimeCall
    /\ lastEvent = NoEvent

\* a caller evaluates charging_time_minutes(i, t, p) at the station's power; the
\* method returns normally for every power in PowerLevels (raised stays FALSE)
ChargingTimeMinutes ==
    \E i \in SocLevels, t \in SocLevels :
      LET p == stationPower IN
        /\ lastTime' = [called |-> TRUE, raised |-> FALSE,
                        soc_initial |-> Pct(i), soc_target |-> Pct(t), power |-> p,
                        time_hours_cc |-> IF RLe(Pct(t), Pct(i)) THEN RZero
                                          ELSE CcTimeHours(Pct(i), Pct(t), p),
                        time_hours_cv |-> IF RLe(Pct(t), Pct(i)) THEN RZero
                                          ELSE CvTimeHours(Pct(i), Pct(t), p),
                        minutes |-> charging_time_minutes(Pct(i), Pct(t), p)]
        /\ UNCHANGED <<lastEvent, stationPower, catalogVars, truckVars, routeVars,
                     optimizeVars, scriptVars>>

SimulateChargingEvent ==
    \E i \in SocLevels, t \in SocLevels :
        LET p == stationPower
            ev == simulate_charging_event(Pct(i), Pct(t), p)
        IN  /\ lastEvent' = [called |-> TRUE, raised |-> FALSE,
                             soc_initial |-> Pct(i), soc_target |-> Pct(t), power |-> p,
                             soc_final |-> ev.soc_final,
                             charging_minutes |-> ev.charging_minutes,
                             energy_added_kwh |-> ev.energy_added_kwh]
            /\ UNCHANGED <<lastTime, stationPower, catalogVars, truckVars, routeVars,
                         optimizeVars, scriptVars>>

NextCharging == ChargingTimeMinutes \/ SimulateChargingEvent

-----------------------------------------------------------------------------
(* The station catalog: ChargingStationManager and its wrapper             *)
(* ChargingManager.  Coordinates are integer grid points, one unit being   *)
(* 1/111 degree (about 1 km), the conversion get_candidate_stations_near_  *)
(* route uses.                                                             *)

\* Road graphs handed to the catalog, by name, and the (x, y) of their nodes
SnapGraphs == {"A", "B"}

NodePos(g) ==
    IF g = "A" THEN <<(<<0, 0>>), (<<10, 0>>), (<<20, 0>>), (<<20, 10>>)>>
    ELSE IF g = "B" THEN <<(<<2, 0>>), (<<14, 0>>), (<<30, 0>>)>>
    ELSE <<>>

\* a raw record of the EAFO file
Raw(country, power, has_lat, has_lon, x, y) ==
    [Country |-> country, Power_kW |-> power,
     has_lat |-> has_lat, has_lon |-> has_lon, x |-> x, y |-> y]

\* the files a caller may load; a path outside this domain cannot be read
CsvFiles ==
    [full |-> << Raw("Germany", 350, TRUE, TRUE, 1, 0),
                 Raw("France", 350, TRUE, TRUE, 4, 0),
                 Raw("Germany", 100, TRUE, TRUE, 9, 0),
                 Raw("Germany", 200, TRUE, TRUE, 11, 0),
                 Raw("germany", 750, TRUE, TRUE, 16, 0),
                 Raw("Germany", 150, FALSE, TRUE, 0, 0),
                 Raw("Germany", 300, TRUE, TRUE, 20, 5),
                 Raw("NaN", 350, TRUE, TRUE, 2, 0),
                 Raw("Germany", 300, TRUE, FALSE, 0, 0),
                 Raw("Federal Republic of Germany", 150, TRUE, TRUE, 27, 0),
                 Raw("Germany", 1000, TRUE, TRUE, 12, 0) >>,
     small |-> << Raw("Germany", 150, TRUE, TRUE, 8, 0) >>,
     foreign |-> << Raw("Austria", 350, TRUE, TRUE, 3, 0) >>]

CsvPaths == {"full", "small", "foreign", "missing.csv"}

\* df["Country"].str.contains("Germany", case=False, na=False): the Country texts of
\* the files that hold "germany" in any case; a missing Country ("NaN") does not
ContainsGermany(country) ==
    country \in {"Germany", "germany", "Federal Republic of Germany"}

RECURSIVE FilterRowsAnyFastCharger(_)
\* the filter without the isin(valid_power_levels_kw) test
FilterRowsAnyFastCharger(rows) ==
    IF rows = <<>> THEN <<>>
    ELSE LET r == Head(rows)
             keep == /\ ContainsGermany(r.Country)
                     /\ r.Power_kW >= 150
                     /\ r.has_lat /\ r.has_lon
         IN  (IF keep THEN << [power_kw |-> r.Power_kW, x |-> r.x, y |-> r.y,
                               node_id |-> 0] >>
              ELSE <<>>) \o FilterRowsAnyFastCharger(Tail(rows))

RECURSIVE FilterRows(_)
FilterRows(rows) ==
    IF rows = <<>> THEN <<>>
    ELSE LET r == Head(rows)
             keep == /\ ContainsGermany(r.Country)
                     /\ r.Power_kW >= 150
                     /\ r.Power_kW \in valid_power_levels_kw
                     /\ r.has_lat /\ r.has_lon
         IN  (IF keep THEN << [power_kw |-> r.Power_kW, x |-> r.x, y |-> r.y,
                               node_id |-> 0] >>
              ELSE <<>>) \o FilterRows(Tail(rows))

Dist2(p, q) == (p[1] - q[1]) * (p[1] - q[1]) + (p[2] - q[2]) * (p[2] - q[2])

\* ox.nearest_nodes(graph, x, y): the node of least distance (the first such)
nearest_nodes(g, x, y) ==
    LET pos == NodePos(g)
    IN  CHOOSE n \in 1..Len(pos) :
            \A k \in 1..Len(pos) :
                \/ Dist2(pos[n], <<x, y>>) < Dist2(pos[k], <<x, y>>)
                \/ (Dist2(pos[n], <<x, y>>) = Dist2(pos[k], <<x, y>>) /\ n <= k)

\* no manager yet: ChargingManager.__init__ sets _mgr = None
NoManager == [exists |-> FALSE, graph |-> "None", loaded |-> FALSE, has_node_id |-> FALSE,
              stations |-> <<>>]

\* ChargingStationManager.__init__(graph): stations = None
NewManager(graph) == [exists |-> TRUE, graph |-> graph, loaded |-> FALSE,
                      has_node_id |-> FALSE, stations |-> <<>>]

NotLoadedError == "ValueError: Stations not loaded"

\* ChargingStationManager.load_eafo_dataset on manager m: the manager afterwards
\* and the error raised ("" when none)
load_eafo_dataset(m, csv_path) ==
    IF csv_path \in DOMAIN CsvFiles
    THEN [m    |-> [m EXCEPT !.loaded = TRUE, !.has_node_id = FALSE,
                             !.stations = FilterRows(CsvFiles[csv_path])],
          error |-> ""]
    ELSE [m |-> m, error |-> "FileNotFoundError"]

\* the stations with their node_id column assigned
SnappedStations(m) ==
    [i \in 1..Len(m.stations) |->
        [m.stations[i] EXCEPT !.node_id = nearest_nodes(m.graph, m.stations[i].x,
                                                         m.stations[i].y)]]

\* ChargingStationManager.snap_stations_to_graph on manager m
snap_stations_to_graph(m) ==
    IF ~m.loaded
    THEN [m |-> m, error |-> NotLoadedError]
    ELSE [m |-> [m EXCEPT !.has_node_id = TRUE, !.stations = SnappedStations(m)],
          error |-> ""]

\* the indices of the stations inside the buffer around the route points:
\* geometry.within(buffer) holds for interior points only
NearbyStations(m, path_nodes, buffer_km) ==
    LET pos == NodePos(m.graph)
    IN  { i \in 1..Len(m.stations) :
            \E k \in 1..Len(path_nodes) :
                Dist2(<<m.stations[i].x, m.stations[i].y>>, pos[path_nodes[k]])
                    < buffer_km * buffer_km }

\* ChargingStationManager.get_candidate_stations_near_route on manager m
get_candidate_stations_near_route(m, path_nodes, buffer_km) ==
    IF ~m.loaded
    THEN [nearby |-> {}, error |-> NotLoadedError]
    ELSE IF \E k \in 1..Len(path_nodes) : path_nodes[k] \notin 1..Len(NodePos(m.graph))
    THEN [nearby |-> {}, error |-> "KeyError"]
    ELSE [nearby |-> NearbyStations(m, path_nodes, buffer_km), error |-> ""]

\* routes and buffers of the queries
QueryPaths == {<<1>>, <<1, 2>>, <<2, 3>>, <<1, 2, 3, 4>>}

BufferKm == {5, 1}

\* the arguments of a catalog call
NoArgs == [csv_path |-> "", graph |-> "", path_nodes |-> <<>>, buffer_km |-> 0]

NoCatalogCall == [op |-> "", args |-> NoArgs, error |-> "", nearby |-> {},
                  ever_loaded |-> FALSE, loaded_before |-> FALSE]

\* what a call leaves in lastCatalogCall
CallRecord(op, args, error, nearby) ==
    [op |-> op, args |-> args, error |-> error, nearby |-> nearby,
     ever_loaded |-> everLoaded, loaded_before |-> mgr.loaded]

\* The caller either uses the wrapper ChargingManager() (main.py), whose _mgr
\* starts as None, or a ChargingStationManager(graph) it constructed itself.
InitCatalog ==
    /\ api \in {"ChargingManager", "ChargingStationManager"}
    /\ mgr \in IF api = "ChargingManager" THEN {NoManager}
               ELSE {NewManager(g) : g \in SnapGraphs}
    /\ everLoaded = FALSE
    /\ lastCatalogCall = NoCatalogCall

\* ChargingManager.load_eafo_dataset: a fresh manager without a graph, then its load
WrapperLoad ==
    \E csv_path \in CsvPaths :
        LET r == load_eafo_dataset(NewManager("None"), csv_path)
        IN  /\ api = "ChargingManager"
            /\ mgr' = r.m
            /\ everLoaded' = (everLoaded \/ r.error = "")
            /\ lastCatalogCall' = CallRecord("load", [NoArgs EXCEPT !.csv_path = csv_path],
                                              r.error, {})
            /\ UNCHANGED <<api, chargingVars, truckVars, routeVars,
                         optimizeVars, scriptVars>>

\* ChargingStationManager.load_eafo_dataset
ManagerLoad ==
    \E csv_path \in CsvPaths :
        LET r == load_eafo_dataset(mgr, csv_path)
        IN  /\ api = "ChargingStationManager"
            /\ mgr' = r.m
            /\ everLoaded' = (everLoaded \/ r.error = "")
            /\ lastCatalogCall' = CallRecord("load", [NoArgs EXCEPT !.csv_path = csv_path],
                                              r.error, {})
            /\ UNCHANGED <<api, chargingVars, truckVars, routeVars,
                         optimizeVars, scriptVars>>

\* ChargingManager.snap_stations(graph)
WrapperSnap ==
    \E graph \in SnapGraphs :
        LET m0 == IF ~mgr.exists THEN NewManager(graph) ELSE [mgr EXCEPT !.graph = graph]
            r  == snap_stations_to_graph(m0)
        IN  /\ api = "ChargingManager"
            /\ mgr' = r.m
            /\ lastCatalogCall' = CallRecord("snap", [NoArgs EXCEPT !.graph = graph],
                                              r.error, {})
            /\ UNCHANGED <<api, everLoaded, chargingVars, truckVars, routeVars,
                         optimizeVars, scriptVars>>

\* ChargingStationManager.snap_stations_to_graph
ManagerSnap ==
    LET r == snap_stations_to_graph(mgr)
    IN  /\ api = "ChargingStationManager"
        /\ mgr' = r.m
        /\ lastCatalogCall' = CallRecord("snap", NoArgs, r.error, {})
        /\ UNCHANGED <<api, everLoaded, chargingVars, truckVars, routeVars,
                     optimizeVars, scriptVars>>

\* ChargingManager.get_candidate_stations_near_route: the proxy dereferences _mgr
\* without a test; with stations loaded and not yet snapped the manager's graph is
\* None and self.graph.nodes fails on the first route node
WrapperCandidates ==
    \E path_nodes \in QueryPaths, buffer_km \in BufferKm :
        LET r == IF ~mgr.exists THEN [nearby |-> {}, error |-> "AttributeError"]
                 ELSE IF mgr.loaded /\ mgr.graph = "None"
                 THEN [nearby |-> {}, error |-> "AttributeError"]
                 ELSE get_candidate_stations_near_route(mgr, path_nodes, buffer_km)
        IN  /\ api = "ChargingManager"
            /\ lastCatalogCall' =
                  CallRecord("candidatesNear",
                             [NoArgs EXCEPT !.path_nodes = path_nodes, !.buffer_km = buffer_km],
                             r.error, r.nearby)
            /\ UNCHANGED <<api, mgr, everLoaded, chargingVars, truckVars, routeVars,
                         optimizeVars, scriptVars>>

\* ChargingStationManager.get_candidate_stations_near_route
ManagerCandidates ==
    \E path_nodes \in QueryPaths, buffer_km \in BufferKm :
        LET r == get_candidate_stations_near_route(mgr, path_nodes, buffer_km)
        IN  /\ api = "ChargingStationManager"
            /\ lastCatalogCall' =
                  CallRecord("candidatesNear",
                             [NoArgs EXCEPT !.path_nodes = path_nodes, !.buffer_km = buffer_km],
                             r.error, r.nearby)
            /\ UNCHANGED <<api, mgr, everLoaded, chargingVars, truckVars, routeVars,
                         optimizeVars, scriptVars>>

-----------------------------------------------------------------------------
(* ElectricTruckModel: vehicle parameters set by __init__                  *)

mass_kg == 40000

frontal_area == 9

drag_coefficient == Pct(55)

rolling_res_coeff == Rat(6, 1000)

air_density == Rat(1225, 1000)

drivetrain_eff == Pct(90)

regen_eff == Pct(65)

aux_load_kw == Rat(25, 10)

battery_capacity_kwh == 600

min_soc == Pct(10)

max_soc == Pct(100)

\* g = 9.81
gravity == Rat(981, 100)

rolling_resistance_power(speed_mps) ==
    RMul(RMul(RMul(rolling_res_coeff, RInt(mass_kg)), gravity), speed_mps)

aerodynamic_drag_power(speed_mps) ==
    RMul(RMul(RMul(RMul(Rat(1, 2), air_density), drag_coefficient), RInt(frontal_area)),
         RMul(RMul(speed_mps, speed_mps), speed_mps))

climbing_power(gradient, speed_mps) ==
    RMul(RMul(RMul(RInt(mass_kg), gravity), gradient), speed_mps)

\* Total mechanical power of a segment, in W
TotalPower(avg_speed_mps, gradient) ==
    LET P_roll  == rolling_resistance_power(avg_speed_mps)
        P_drag  == aerodynamic_drag_power(avg_speed_mps)
        P_climb == climbing_power(gradient, avg_speed_mps)
        P_aux   == RMul(aux_load_kw, RInt(1000))
    IN  RAdd(RAdd(RAdd(P_roll, P_drag), P_climb), P_aux)

\* the energy with the regenerative branch missing: a negative mechanical energy
\* is divided by the drivetrain efficiency and its sign dropped
segment_energy_kwh_no_regen(distance_m, avg_speed_mps, gradient) ==
    LET P_total   == TotalPower(avg_speed_mps, gradient)
        time_sec  == RDiv(distance_m, avg_speed_mps)
        E_mech_wh == RMul(RDiv(RMul(P_total, time_sec), RInt(3600)), RInt(1000))
        E_elec_wh == IF RLe(RZero, E_mech_wh)
                     THEN RDiv(E_mech_wh, drivetrain_eff)
                     ELSE RDiv(RNeg(E_mech_wh), drivetrain_eff)
    IN  RDiv(E_elec_wh, RInt(1000))

\* segment_energy_kwh for avg_speed_mps # 0: the value returned is
\* ((P_total * time_sec) / 3600 * 1000) scaled by the efficiency, / 1000
segment_energy_kwh(distance_m, avg_speed_mps, gradient) ==
    LET P_total   == TotalPower(avg_speed_mps, gradient)
        time_sec  == RDiv(distance_m, avg_speed_mps)
        E_mech_wh == RMul(RDiv(RMul(P_total, time_sec), RInt(3600)), RInt(1000))
        E_elec_wh == IF RLe(RZero, E_mech_wh)
                     THEN RDiv(E_mech_wh, drivetrain_eff)
                     ELSE RMul(E_mech_wh, regen_eff)
    IN  RDiv(E_elec_wh, RInt(1000))

\* the SOC update with the sign of the energy term reversed
soc_after_segment_added(soc_initial, energy_kwh) ==
    RAdd(soc_initial, RDiv(energy_kwh, RInt(battery_capacity_kwh)))

soc_after_segment(soc_initial, energy_kwh) ==
    LET battery_kwh_used == energy_kwh
    IN  RSub(soc_initial, RDiv(battery_kwh_used, RInt(battery_capacity_kwh)))

soc_valid(soc_value) == RLe(min_soc, soc_value) /\ RLe(soc_value, max_soc)

\* the factor apply_temperature_effect stores for temp_c
TemperatureFactor(temp_c) ==
    IF temp_c < 0 THEN Pct(115)
    ELSE IF temp_c < 10 THEN Pct(105)
    ELSE Pct(100)

\* temp_c=15, the default of compute_edge_energy
DefaultTempC == 15

\* compute_edge_energy: the value returned; the call also stores
\* TemperatureFactor(temp_c) in temperature_loss_factor
compute_edge_energy(edge_length_m, speed_mps, gradient, temp_c) ==
    RMul(segment_energy_kwh(edge_length_m, speed_mps, gradient), TemperatureFactor(temp_c))

-----------------------------------------------------------------------------
(* compute_edge_energy as the evaluations call it.  The model object is    *)
(* shared; a call first stores the factor of its temperature in            *)
(* temperature_loss_factor (apply_temperature_effect) and, after           *)
(* segment_energy_kwh, reads the field again for the product it returns.   *)
(* Between the two steps of one evaluation another evaluation may run.     *)

\* number of evaluations that share the model
NumEvaluations == 2

Evaluations == 1..NumEvaluations

\* (edge_length_m, speed_mps, gradient in percent) of the calls: a flat road, two
\* descents, a climb, an edge of length zero and an edge of speed zero
EdgeInputs == { <<36, 20, 0>>, <<36, 20, -1>>, <<36, 20, -2>>,
                <<0, 20, -2>>, <<36, 0, 0>> }

\* temp_c of the calls: one value of each branch of apply_temperature_effect
Temperatures == {-5, 5, 15}

NoEval == [pc |-> "idle", edge_length_m |-> 0, speed_mps |-> 0, gradient |-> 0,
           temp_c |-> 0, energy |-> RZero, error |-> ""]

\* an evaluation enters compute_edge_energy(edge_length_m, speed_mps, gradient, temp_c)
CallComputeEdgeEnergy ==
    \E t \in Evaluations, e \in EdgeInputs, temp_c \in Temperatures :
        /\ evals[t].pc = "idle"
        /\ evals' = [evals EXCEPT ![t] =
                        [pc |-> "apply_temperature_effect", edge_length_m |-> e[1],
                         speed_mps |-> e[2], gradient |-> e[3], temp_c |-> temp_c,
                         energy |-> RZero, error |-> ""]]
        /\ UNCHANGED <<temperature_loss_factor, chargingVars, catalogVars, routeVars,
                       optimizeVars, scriptVars>>

\* self.apply_temperature_effect(temp_c): the factor is stored in the model
ApplyTemperatureEffect ==
    \E t \in Evaluations :
        /\ evals[t].pc = "apply_temperature_effect"
        /\ temperature_loss_factor' = TemperatureFactor(evals[t].temp_c)
        /\ evals' = [evals EXCEPT ![t].pc = "segment_energy_kwh"]
        /\ UNCHANGED <<chargingVars, catalogVars, routeVars, optimizeVars, scriptVars>>

\* base_energy = self.segment_energy_kwh(...), which divides by the speed, and
\* return base_energy * self.temperature_loss_factor
ReturnEdgeEnergy ==
    \E t \in Evaluations :
        /\ evals[t].pc = "segment_energy_kwh"
        /\ evals' = [evals EXCEPT ![t] =
              IF evals[t].speed_mps = 0
              THEN [@ EXCEPT !.pc = "raised", !.error = "ZeroDivisionError"]
              ELSE [@ EXCEPT !.pc = "returned",
                             !.energy = RMul(segment_energy_kwh(RInt(evals[t].edge_length_m),
                                                                RInt(evals[t].speed_mps),
                                                                Pct(evals[t].gradient)),
                                             temperature_loss_factor)]]
        /\ UNCHANGED <<temperature_loss_factor, chargingVars, catalogVars, routeVars,
                       optimizeVars, scriptVars>>

NextTruck ==
    \/ CallComputeEdgeEnergy
    \/ ApplyTemperatureEffect
    \/ ReturnEdgeEnergy

-----------------------------------------------------------------------------
(* The road graph (graph_builder.RoadNetwork builds one of this shape: a   *)
(* line of cities with one alternative road)                               *)

\* number of nodes of the line; node 0 stands for a name that is not a node
NumNodes == 6

Nodes == 1..NumNodes

Edge(u, v, length_m, speed_kph, grade_pct) ==
    [u |-> u, v |-> v, length |-> length_m, speed_kph |-> speed_kph, grade |-> grade_pct]

\* the roads an edge may be: a short flat road, a long flat road, a descent.
\* Lengths are tens of metres because segment_energy_kwh returns about 1.1 per
\* metre driven at 72 km/h (its "/ 3600 * 1000 ... / 1000" yields Wh, not kWh),
\* so that some roads fit into the 600 kWh battery and some do not.
LineKinds == {"short", "long", "descent"}

KindEdge(u, v, kind) ==
    IF kind = "short" THEN Edge(u, v, 36, 72, 0)
    ELSE IF kind = "long" THEN Edge(u, v, 180, 72, 0)
    ELSE IF kind = "descent" THEN Edge(u, v, 18, 72, -2)
    ELSE Edge(u, v, 72, 36, 0)         \* "slow": shorter than three short roads, and slower

\* the graph with road kind `first` from node 1 to 2, kind `rest` on the other roads
\* of the line, the road 3 -> 4 left out when `broken`, an alternative road from
\* node 2 to the node before the last of kind `alt` ("none": absent) and, when
\* `twin`, a second, parallel edge 2 -> 3
BuildGraph(first, rest, broken, alt, twin) ==
    SelectSeq([i \in 1..(NumNodes - 1) |-> KindEdge(i, i + 1, IF i = 1 THEN first ELSE rest)],
              LAMBDA e : ~(broken /\ e.u = 3))
    \o (IF alt = "none" THEN <<>> ELSE << KindEdge(2, NumNodes - 1, alt) >>)
    \o (IF twin THEN << KindEdge(2, 3, "slow") >> ELSE <<>>)

Graphs ==
    { BuildGraph(first, rest, broken, alt, twin) :
        first \in LineKinds, rest \in {"short", "long"}, broken \in BOOLEAN,
        alt \in {"none", "slow", "long"}, twin \in BOOLEAN }

\* G.get_edge_data(u, v): the parallel edges from u to v, by key
get_edge_data(g, u, v) == SelectSeq(g, LAMBDA e : e.u = u /\ e.v = v)

HasEdge(g, u, v) == \E i \in 1..Len(g) : g[i].u = u /\ g[i].v = v

-----------------------------------------------------------------------------
(* RouteEnergyEvaluator.compute_route_energy                               *)

RECURSIVE RouteSegments(_, _, _, _)
\* the segment records of path_nodes[i..], entered with SOC soc
RouteSegments(g, path_nodes, i, soc) ==
    IF i > Len(path_nodes) - 1 THEN <<>>
    ELSE LET u == path_nodes[i]
             v == path_nodes[i + 1]
             edge == get_edge_data(g, u, v)[1]
             length_m == RInt(edge.length)
             speed == RMul(RInt(edge.speed_kph), Rat(1000, 3600))
             gradient == Pct(edge.grade)
             energy_kwh == compute_edge_energy(length_m, speed, gradient, DefaultTempC)
             soc_new == soc_after_segment(soc, energy_kwh)
         IN  << [u |-> u, v |-> v, length_m |-> length_m, energy_kwh |-> energy_kwh,
                 soc_before |-> soc, soc_after |-> soc_new, speed_mps |-> speed,
                 gradient |-> gradient] >>
             \o RouteSegments(g, path_nodes, i + 1, soc_new)

RECURSIVE SumEnergy(_)
SumEnergy(segs) ==
    IF segs = <<>> THEN RZero ELSE RAdd(SumEnergy(SubSeq(segs, 1, Len(segs) - 1)),
                                        segs[Len(segs)].energy_kwh)

\* (segments, total_energy_kwh)
compute_route_energy(g, path_nodes, initial_soc) ==
    LET segs == RouteSegments(g, path_nodes, 1, initial_soc)
    IN  [segments |-> segs, total_energy_kwh |-> SumEnergy(segs)]

-----------------------------------------------------------------------------
(* optimization_model.MultiObjectiveOptimizer: run_nsga and _path_metrics  *)

\* (w_time, w_energy, w_em), in percent
weight_sets == << <<100, 0, 0>>, <<0, 100, 0>>, <<0, 0, 100>>, <<33, 33, 34>>, <<50, 25, 25>> >>

consumption_kwh_per_km == Rat(145, 100)

\* data['weight'] of one edge of the copy G2
EdgeWeight(w, data) ==
    LET dist_km == RDiv(RInt(data.length), RInt(1000))
        speed   == RInt(data.speed_kph)
        time_h  == RDiv(dist_km, speed)
        energy  == RMul(dist_km, Rat(145, 100))
        em_kg   == RMul(energy, Pct(42))
    IN  RAdd(RAdd(RMul(Pct(w[1]), time_h), RMul(Pct(w[2]), energy)), RMul(Pct(w[3]), em_kg))

\* an edge of the copy G2, its attribute dict holding 'weight' as well
Weighted(data, weight) ==
    [u |-> data.u, v |-> data.v, length |-> data.length, speed_kph |-> data.speed_kph,
     grade |-> data.grade, weight |-> weight]

\* G2 = self.G.copy() after the loop that assigns data['weight'] on every edge of it
WeightedCopy(g, w) == [i \in 1..Len(g) |-> Weighted(g[i], EdgeWeight(w, g[i]))]

\* the caller's graph when the weights were written to the graph object itself
CallerGraphAliased(g, g2) == g2

\* the caller's graph g after the weights were written to its copy g2:
\* Graph.copy() gives the copy attribute dicts of its own
CallerGraphAfter(g, g2) == g

RECURSIVE MinWeight(_)
\* Dijkstra on a multigraph takes the least weight among parallel edges
MinWeight(datas) ==
    IF Len(datas) = 1 THEN datas[1].weight
    ELSE RMin(datas[1].weight, MinWeight(Tail(datas)))

RECURSIVE PathWeight(_, _)
PathWeight(g2, path) ==
    IF Len(path) < 2 THEN RZero
    ELSE RAdd(MinWeight(get_edge_data(g2, path[1], path[2])), PathWeight(g2, Tail(path)))

RECURSIVE PathsFrom(_, _, _)
\* the simple paths that extend path to target
PathsFrom(g, path, target) ==
    IF path[Len(path)] = target THEN {path}
    ELSE UNION { PathsFrom(g, Append(path, n), target) :
                    n \in { m \in Nodes : /\ HasEdge(g, path[Len(path)], m)
                                          /\ \A k \in 1..Len(path) : path[k] # m } }

\* the search that ignores the weights: the paths of fewest edges
shortest_path_unweighted(g2, source, target) ==
    LET all == PathsFrom(g2, <<source>>, target)
    IN  { p \in all : \A q \in all : Len(p) <= Len(q) }

\* nx.shortest_path(G2, source, target, weight='weight') for nodes of the graph:
\* the paths of least weight (the method returns one of them); none when the
\* target cannot be reached
shortest_path(g2, source, target) ==
    LET all == PathsFrom(g2, <<source>>, target)
        wt  == [p \in all |-> PathWeight(g2, p)]
    IN  { p \in all : \A q \in all : RLe(wt[p], wt[q]) }

\* run_nsga's search for one weight set: no path when an endpoint is not a node
\* (NodeNotFound) or the target cannot be reached (NetworkXNoPath)
ShortestPaths(g, w, source, target) ==
    IF source \notin Nodes \/ target \notin Nodes THEN {}
    ELSE shortest_path(WeightedCopy(g, w), source, target)

RECURSIVE PathLengthM(_, _)
\* _path_metrics: total_m, from the first of the parallel edges of each hop
PathLengthM(g, path_nodes) ==
    IF Len(path_nodes) < 2 THEN 0
    ELSE LET data == get_edge_data(g, path_nodes[1], path_nodes[2])
         IN  (IF data = <<>> THEN 0 ELSE data[1].length) + PathLengthM(g, Tail(path_nodes))

\* _path_metrics, packed with the path into a ParetoSolution; the class has no
\* field for charging events or for an SOC profile.  obj is the identity of the
\* object: the pass of the loop that created it.
ParetoSolution(g, path, obj) ==
    LET km     == RDiv(RInt(PathLengthM(g, path)), RInt(1000))
        energy == RMul(km, consumption_kwh_per_km)
    IN  [cost |-> RMul(energy, Pct(32)), energy |-> energy, co2 |-> RMul(energy, Pct(42)),
         path |-> path, obj |-> obj]

\* the charging events a ParetoSolution carries: run_nsga never consults
\* charger_mgr and the class stores none
ChargingEvents(sol) == <<>>

\* the deduplication left out: list(solutions) is returned as it is
DeduplicateSkipped(sols) == sols

RECURSIVE Deduplicate(_)
\* "Deduplicate by path": the first solution of each path, in order
Deduplicate(sols) ==
    IF sols = <<>> THEN <<>>
    ELSE LET init == Deduplicate(SubSeq(sols, 1, Len(sols) - 1))
             s    == sols[Len(sols)]
         IN  IF \E k \in 1..Len(init) : init[k].path = s.path THEN init
             ELSE Append(init, s)

-----------------------------------------------------------------------------
(* multiobjective_optimizer.MultiObjectiveOptimizer.optimize_route          *)

\* self.co2_intensity = 420 gCO2/kWh
co2_intensity == 420

\* edge_weight(u, v, data) of optimize_route
OptimizeEdgeWeight(w, data) ==
    LET dist_km     == RDiv(RInt(data.length), RInt(1000))
        speed_h     == RInt(data.speed_kph)
        time_h      == RDiv(dist_km, speed_h)
        energy_kwh  == RMul(dist_km, Rat(14, 10))
        emission_kg == RDiv(RMul(energy_kwh, RInt(co2_intensity)), RInt(1000))
    IN  RAdd(RAdd(RMul(Pct(w[1]), time_h), RMul(Pct(w[2]), energy_kwh)),
             RMul(Pct(w[3]), emission_kg))

\* G2 = self.graph.copy() with data["weight"] = edge_weight(u, v, data)
OptimizeWeightedCopy(g, w) ==
    [i \in 1..Len(g) |-> Weighted(g[i], OptimizeEdgeWeight(w, g[i]))]

NotOptimized == [called |-> FALSE, origin_node |-> 0, dest_node |-> 0, w |-> <<0, 0, 0>>,
                 path |-> <<>>, error |-> ""]

-----------------------------------------------------------------------------
(* The route search as a process                                           *)

StartNodes == {1, NumNodes, 0}

EndNodes == {NumNodes, 1, 0}

InitialSocs == {90, 50}

NotEvaluated == [called |-> FALSE, k |-> 0, path |-> <<>>, initial_soc |-> RZero,
                 segments |-> <<>>, total_energy_kwh |-> RZero]

TruckFresh ==
    /\ temperature_loss_factor = Pct(100)
    /\ evals = [t \in Evaluations |-> NoEval]

RouteFresh ==
    /\ pc = "idle"
    /\ start_node = 0 /\ end_node = 0
    /\ widx = 1
    /\ solutions = <<>>
    /\ result = <<>>
    /\ evaluated = NotEvaluated
    /\ optimized = NotOptimized

\* run_nsga(start, end) is entered: solutions = []
RunNsga ==
    \E s \in StartNodes, e \in EndNodes :
        /\ pc = "idle"
        /\ pc' = "sweep"
        /\ start_node' = s /\ end_node' = e
        /\ widx' = 1
        /\ solutions' = <<>>
        /\ UNCHANGED <<G, stationAt, result, evaluated, truckVars, chargingVars, catalogVars,
                     optimizeVars, scriptVars>>

\* one pass of "for w_time, w_energy, w_em in weight_sets": weights on a copy,
\* shortest path (the empty path when nx.shortest_path raises), metrics, append
SweepVector ==
    /\ pc = "sweep" /\ widx <= Len(weight_sets)
    /\ LET sp == ShortestPaths(G, weight_sets[widx], start_node, end_node)
       IN  \E path \in (IF sp = {} THEN {<<>>} ELSE sp) :
               solutions' = Append(solutions, ParetoSolution(G, path, widx))
    /\ widx' = widx + 1
    /\ G' = CallerGraphAfter(G, WeightedCopy(G, weight_sets[widx]))
    /\ UNCHANGED <<stationAt, pc, start_node, end_node, result, evaluated,
                   truckVars, chargingVars, catalogVars,
                   optimizeVars, scriptVars>>

\* "Deduplicate by path" and return
ReturnUnique ==
    /\ pc = "sweep" /\ widx > Len(weight_sets)
    /\ result' = Deduplicate(solutions)
    /\ pc' = "done"
    /\ UNCHANGED <<G, stationAt, start_node, end_node, widx, solutions, evaluated,
                   truckVars, chargingVars, catalogVars,
                   optimizeVars, scriptVars>>

\* RouteEnergyEvaluator.compute_route_energy on the path of a returned solution;
\* each compute_edge_energy call of it stores the factor of the default temperature
ComputeRouteEnergy ==
    \E k \in 1..Len(result), soc0 \in InitialSocs :
        /\ pc = "done"
        /\ LET r == compute_route_energy(G, result[k].path, Pct(soc0))
           IN  evaluated' = [called |-> TRUE, k |-> k, path |-> result[k].path,
                             initial_soc |-> Pct(soc0), segments |-> r.segments,
                             total_energy_kwh |-> r.total_energy_kwh]
        /\ temperature_loss_factor' =
              IF Len(result[k].path) > 1 THEN TemperatureFactor(DefaultTempC)
              ELSE temperature_loss_factor
        /\ UNCHANGED <<G, stationAt, pc, start_node, end_node, widx, solutions, result,
                       evals, chargingVars, catalogVars,
                       optimizeVars, scriptVars>>

\* optimize_route(origin_node, dest_node, w_time, w_energy, w_emissions) of the
\* other optimizer class, called on the same graph instead of run_nsga; the
\* exceptions of nx.shortest_path are not caught
OptimizeRoute ==
    \E origin_node \in StartNodes, dest_node \in EndNodes, k \in 1..Len(weight_sets) :
        LET w  == weight_sets[k]
            G2 == OptimizeWeightedCopy(G, w)
            known == origin_node \in Nodes /\ dest_node \in Nodes
            sp == IF known THEN shortest_path(G2, origin_node, dest_node) ELSE {}
            call == [NotOptimized EXCEPT !.called = TRUE, !.origin_node = origin_node,
                                         !.dest_node = dest_node, !.w = w]
        IN  /\ pc = "idle"
            /\ pc' = "optimized"
            /\ IF sp = {}
               THEN optimized' = [call EXCEPT !.error = IF known THEN "NetworkXNoPath"
                                                        ELSE "NodeNotFound"]
               ELSE \E path \in sp : optimized' = [call EXCEPT !.path = path]
            /\ G' = CallerGraphAfter(G, G2)
            /\ UNCHANGED <<stationAt, start_node, end_node, widx, solutions, result,
                           evaluated, truckVars, chargingVars, catalogVars, scriptVars>>

-----------------------------------------------------------------------------
(* ev_truck_routing_germany.py: the script that states the SOC-constrained *)
(* formulation.  It runs from its first line to its last; positions along  *)
(* the road are whole kilometres on a line.                                *)

BATTERY_KWH == 600

SOC_MIN == RMul(Pct(10), RInt(BATTERY_KWH))

SOC_MAX == RInt(BATTERY_KWH)

\* CHARGING_STATIONS, by their position along the road
CHARGING_STATIONS == {100, 250}

\* largest number of waypoints of the discretised route
MaxWaypoints == 3

\* positions a waypoint of the baseline route may have
WaypointKm == {0, 96, 106, 400}

\* route_points[::ROUTE_STEP] for the routes the road network may give
RoutePointLists == UNION { [1..n -> WaypointKm] : n \in 0..MaxWaypoints }

\* geodesic(a, b).km
GeodesicKm(a, b) == Abs(a - b)

\* distances: between consecutive waypoints, and a final 0
Distances(route_points) ==
    IF route_points = <<>> THEN <<0>>
    ELSE [i \in 1..Len(route_points) |->
            IF i < Len(route_points) THEN GeodesicKm(route_points[i], route_points[i + 1])
            ELSE 0]

\* soc_rule(model, i) for the waypoint of index i (the first has index 1 here)
soc_rule(soc, charge, energy_use, i) ==
    IF i = 1 THEN soc[i] = SOC_MAX
    ELSE soc[i] = RAdd(RSub(soc[i - 1], energy_use[i - 1]), charge[i - 1])

\* dmin of charging_station_rule
StationDistanceKm(p) ==
    CHOOSE d \in {GeodesicKm(p, cs) : cs \in CHARGING_STATIONS} :
        \A cs \in CHARGING_STATIONS : d <= GeodesicKm(p, cs)

\* charging_station_rule(model, i): no charge farther than 5 km from every station
charging_station_rule(route_points, charge, i) ==
    StationDistanceKm(route_points[i]) > 5 => charge[i] = RZero

ScriptStart == [pc |-> "start", route_points |-> <<>>, energy_use |-> <<>>,
                soc |-> <<>>, charge |-> <<>>, error |-> ""]

ScriptFresh == script = ScriptStart

\* sections 2 to 5: road network, baseline route and its discretised waypoints
ScriptRoutePoints ==
    \E route_points \in RoutePointLists :
        /\ script.pc = "start"
        /\ script' = [script EXCEPT !.pc = "model", !.route_points = route_points]
        /\ UNCHANGED <<chargingVars, catalogVars, truckVars, routeVars, optimizeVars>>

\* section 6 up to energy_use: the model and its variables are declared, the
\* distances computed (they always end with a 0), and the list comprehension
\* "d * CONSUMPtiON_KWH_PER_KM" names a variable the script never binds
ScriptEnergyUse ==
    /\ script.pc = "model"
    /\ Len(Distances(script.route_points)) > 0
    /\ script' = [script EXCEPT !.pc = "raised", !.error = "NameError"]
    /\ UNCHANGED <<chargingVars, catalogVars, truckVars, routeVars, optimizeVars>>

NextScript ==
    \/ ScriptRoutePoints
    \/ ScriptEnergyUse

-----------------------------------------------------------------------------
(* Specifications: each component is exercised on its own, the others      *)
(* staying in their state after construction                               *)

\* the graph graph_builder.build_graph_with_chargers builds, without a station
DefaultGraph == BuildGraph("long", "long", FALSE, "long", FALSE)

CatalogFresh ==
    /\ api = "ChargingManager" /\ mgr = NoManager
    /\ everLoaded = FALSE /\ lastCatalogCall = NoCatalogCall

RouteIdle == G = DefaultGraph /\ stationAt = 0 /\ RouteFresh /\ TruckFresh

InitCharging ==
    /\ stationPower \in PowerLevels
    /\ ChargingFresh
    /\ CatalogFresh
    /\ RouteIdle
    /\ ScriptFresh

SpecCharging == InitCharging /\ [][NextCharging]_vars

NextCatalog ==
    \/ WrapperLoad
    \/ ManagerLoad
    \/ WrapperSnap
    \/ ManagerSnap
    \/ WrapperCandidates
    \/ ManagerCandidates

InitCatalogOnly ==
    /\ InitCatalog
    /\ stationPower = 350
    /\ ChargingFresh
    /\ RouteIdle
    /\ ScriptFresh

SpecCatalog == InitCatalogOnly /\ [][NextCatalog]_vars

Init ==
    /\ G \in Graphs
    /\ stationAt \in {0, 3}
    /\ RouteFresh
    /\ TruckFresh
    /\ stationPower = 350
    /\ ChargingFresh
    /\ CatalogFresh
    /\ ScriptFresh

Next ==
    \/ RunNsga
    \/ SweepVector
    \/ ReturnUnique
    \/ ComputeRouteEnergy
    \/ OptimizeRoute

Spec == Init /\ [][Next]_vars

\* the evaluations that share one energy model
InitTruck ==
    /\ stationPower = 350
    /\ ChargingFresh
    /\ CatalogFresh
    /\ RouteIdle
    /\ ScriptFresh

SpecTruck == InitTruck /\ [][NextTruck]_vars

\* a run of ev_truck_routing_germany.py
InitScript ==
    /\ stationPower = 350
    /\ ChargingFresh
    /\ CatalogFresh
    /\ RouteIdle
    /\ ScriptFresh

SpecScript == InitScript /\ [][NextScript]_vars

-----------------------------------------------------------------------------
(* Properties of the charging model, checked under SpecCharging            *)

\* C6: when soc_target <= soc_initial charging is a no-op: charging_time_minutes
\* returns 0, and simulate_charging_event returns zero minutes, zero energy
\* delivered and a final SOC not lower than soc_initial.
C6_NoOpWhenTargetNotAbove ==
    /\ (lastTime.called /\ RLe(lastTime.soc_target, lastTime.soc_initial))
          => lastTime.minutes = RZero
    /\ (lastEvent.called /\ RLe(lastEvent.soc_target, lastEvent.soc_initial))
          => /\ lastEvent.charging_minutes = RZero
             /\ lastEvent.energy_added_kwh = RZero
             /\ RLe(lastEvent.soc_initial, lastEvent.soc_final)

\* C7 as stated: at one charger power, of any two sessions the one with the
\* smaller (soc_target - soc_initial) never takes longer.
C7_MonotoneInSocDifference ==
    (lastTime.called /\ lastEvent.called) =>
        LET d1 == RSub(lastTime.soc_target, lastTime.soc_initial)
            d2 == RSub(lastEvent.soc_target, lastEvent.soc_initial)
        IN  /\ RLe(d1, d2) => RLe(lastTime.minutes, lastEvent.charging_minutes)
            /\ RLe(d2, d1) => RLe(lastEvent.charging_minutes, lastTime.minutes)

\* the SOC interval of session a lies inside the SOC interval of session b
Inside(a, b) == RLe(b.soc_initial, a.soc_initial) /\ RLe(a.soc_target, b.soc_target)

\* C7 amended: at one charger power, a session whose SOC interval lies inside
\* another session's interval (soc_initial not lower, soc_target not higher)
\* never takes longer than that session; in particular charging time is
\* non-decreasing in soc_target for a fixed soc_initial.
C7_MonotoneNestedSessions ==
    (lastTime.called /\ lastEvent.called) =>
        /\ Inside(lastTime, lastEvent)
              => RLe(lastTime.minutes, lastEvent.charging_minutes)
        /\ Inside(lastEvent, lastTime)
              => RLe(lastEvent.charging_minutes, lastTime.minutes)

\* a CV-only session strictly inside a longer session that spans both phases
C7_Witness ==
    /\ lastTime.called /\ lastEvent.called
    /\ lastTime.soc_initial = Pct(90) /\ lastTime.soc_target = Pct(100)
    /\ lastEvent.soc_initial = Pct(20) /\ lastEvent.soc_target = Pct(100)
    /\ RLt(RZero, lastTime.minutes)
    /\ RLt(lastTime.minutes, lastEvent.charging_minutes)

\* the call charging_time_minutes(0.20, 0.80, 350) has been made
IsSpecExampleCall ==
    /\ lastTime.called
    /\ lastTime.soc_initial = Pct(20) /\ lastTime.soc_target = Pct(80)
    /\ lastTime.power = 350

\* (0.60 x 600) / (350 x 0.93) x 60
SpecExampleMinutes ==
    RMul(RDiv(RMul(Pct(60), RInt(600)), RMul(RInt(350), Pct(93))), RInt(60))

\* C8 as stated: 0.20 -> 0.80 at 350 kW is all CC, takes
\* (0.60 x 600)/(350 x 0.93) x 60 minutes, and that is about 59.2 minutes.
C8_ExampleIs59Minutes ==
    IsSpecExampleCall =>
        /\ lastTime.time_hours_cv = RZero
        /\ lastTime.minutes = SpecExampleMinutes
        /\ RLe(Rat(587, 10), lastTime.minutes) /\ RLe(lastTime.minutes, Rat(597, 10))

\* C8 amended: 0.20 -> 0.80 at 350 kW is all CC (CV time is zero) and takes
\* (0.60 x 600)/(350 x 0.93) x 60 minutes, which is about 66.4 minutes.
C8_ExampleIs66Minutes ==
    IsSpecExampleCall =>
        /\ lastTime.time_hours_cv = RZero
        /\ lastTime.minutes = SpecExampleMinutes
        /\ RLe(Rat(6635, 100), lastTime.minutes) /\ RLe(lastTime.minutes, Rat(6645, 100))

C8_Witness == IsSpecExampleCall /\ RLt(RZero, lastTime.time_hours_cc)

\* C9: a charger power outside {150, 300, 350, 750} makes charging_time_minutes
\* and simulate_charging_event fail; neither returns a value computed from it.
C9_UnsupportedPowerRejected ==
    /\ (lastTime.called /\ lastTime.power \notin valid_power_levels_kw)
          => lastTime.raised
    /\ (lastEvent.called /\ lastEvent.power \notin valid_power_levels_kw)
          => lastEvent.raised

-----------------------------------------------------------------------------
(* Properties of the station catalog, checked under SpecCatalog            *)

\* C10: snap and candidatesNear called before any successful load fail with the
\* catalog's not-loaded error and leave the station set unloaded (no station, no
\* node_id); a snap called on loaded stations succeeds.
C10_NotLoadedErrorBeforeLoad ==
    /\ (lastCatalogCall.op \in {"snap", "candidatesNear"} /\ ~lastCatalogCall.ever_loaded)
          => /\ lastCatalogCall.error = NotLoadedError
             /\ ~mgr.loaded /\ mgr.stations = <<>> /\ ~mgr.has_node_id
    /\ (lastCatalogCall.op = "snap" /\ lastCatalogCall.loaded_before)
          => /\ lastCatalogCall.error = ""
             /\ mgr.has_node_id

\* C11: a station's node_id is assigned by a snap only, and once assigned it is
\* not changed by any later snap or candidatesNear call on the same station set
\* (a later snap with another graph included); a call other than a load changes
\* no other station field.
C11_NodeIdAssignedOnce ==
    [][ /\ (~mgr.has_node_id /\ mgr'.has_node_id) => lastCatalogCall'.op = "snap"
        /\ (mgr.has_node_id /\ lastCatalogCall'.op # "load")
              => mgr'.stations = mgr.stations
        /\ (mgr.loaded /\ lastCatalogCall'.op # "load")
              => /\ Len(mgr'.stations) = Len(mgr.stations)
                 /\ \A i \in 1..Len(mgr.stations) :
                       /\ mgr'.stations[i].power_kw = mgr.stations[i].power_kw
                       /\ mgr'.stations[i].x = mgr.stations[i].x
                       /\ mgr'.stations[i].y = mgr.stations[i].y ]_vars

\* the country a Country text names ("" when it names none)
CountryOf(text) ==
    IF text \in {"Germany", "germany", "Federal Republic of Germany"} THEN "DE"
    ELSE IF text = "France" THEN "FR"
    ELSE IF text = "Austria" THEN "AT"
    ELSE ""

\* the records the catalog has to hold after a load of rows
SupportedRecords(rows) ==
    SelectSeq(rows, LAMBDA r : /\ CountryOf(r.Country) = "DE"
                               /\ r.Power_kW \in {150, 300, 350, 750}
                               /\ r.has_lat /\ r.has_lon)

\* C12: after a load the catalog holds exactly the records of the file whose
\* country is Germany, whose power is one of 150, 300, 350, 750 kW and whose
\* latitude and longitude are both present, in the order of the file and with
\* their power and coordinates as in the file.
C12_LoadKeepsExactlySupported ==
    (lastCatalogCall.op = "load" /\ lastCatalogCall.error = "") =>
        LET want == SupportedRecords(CsvFiles[lastCatalogCall.args.csv_path])
        IN  /\ mgr.loaded
            /\ Len(mgr.stations) = Len(want)
            /\ \A i \in 1..Len(want) :
                  /\ mgr.stations[i].power_kw = want[i].Power_kW
                  /\ mgr.stations[i].x = want[i].x
                  /\ mgr.stations[i].y = want[i].y

\* the file with records of every kind has been loaded: some kept, some dropped
C12_Witness ==
    /\ lastCatalogCall.op = "load" /\ lastCatalogCall.error = ""
    /\ lastCatalogCall.args.csv_path = "full"
    /\ Len(mgr.stations) = 4
    /\ Len(mgr.stations) < Len(CsvFiles["full"])

\* C13: candidatesNear returns exactly the stations whose distance to the nearest
\* route point is at most buffer_km, a station at distance exactly buffer_km
\* included.
C13_ClosedBuffer ==
    (lastCatalogCall.op = "candidatesNear" /\ lastCatalogCall.error = "") =>
        LET path_nodes == lastCatalogCall.args.path_nodes
            buffer_km  == lastCatalogCall.args.buffer_km
            pos        == NodePos(mgr.graph)
        IN  lastCatalogCall.nearby =
                { i \in 1..Len(mgr.stations) :
                    \E k \in 1..Len(path_nodes) :
                        Dist2(<<mgr.stations[i].x, mgr.stations[i].y>>, pos[path_nodes[k]])
                            <= buffer_km * buffer_km }

-----------------------------------------------------------------------------
(* Properties of the route search, checked under Spec                      *)

\* C1: no route returned by run_nsga, when its SOC is propagated edge by edge from
\* the initial SOC with soc_after_segment, has a segment whose SOC falls below
\* min_soc, unless a charging stop is recorded for the route.
C1_ReturnedRoutesStayAboveMinSoc ==
    (pc = "done" /\ evaluated.called) =>
        \A i \in 1..Len(evaluated.segments) :
            \/ RLe(min_soc, evaluated.segments[i].soc_after)
            \/ ChargingEvents(result[evaluated.k]) # <<>>

\* C2: the list run_nsga returns never holds two solutions with the same node
\* sequence; of the solutions the weight sets produced for one path, the one kept
\* is the first produced, and every path produced is kept once.
C2_UniquePathsFirstKept ==
    pc = "done" =>
        /\ \A i, j \in 1..Len(result) : i # j => result[i].path # result[j].path
        /\ \A k \in 1..Len(solutions) :
              \E j \in 1..Len(result) :
                  /\ result[j].path = solutions[k].path
                  /\ result[j].obj <= k
                  /\ solutions[result[j].obj] = result[j]
                  /\ \A n \in 1..(result[j].obj - 1) : solutions[n].path # solutions[k].path

\* two weight sets found the same path and two found different paths
C2_Witness ==
    /\ pc = "done"
    /\ Len(result) >= 2
    /\ Len(result) < Len(solutions)
    /\ \A j \in 1..Len(result) : result[j].path # <<>>

\* C3: a weight set without a path contributes no solution to the result, and the
\* other weight sets are still evaluated; when no weight set has a path the result
\* is empty.
C3_NoPathNoCandidate ==
    pc = "done" =>
        /\ Len(solutions) = Len(weight_sets)
        /\ \A j \in 1..Len(result) : result[j].path # <<>>

\* the graph is the line 1 -> 2 -> ... -> 6 and nothing else
IsLine(g) == Len(g) = NumNodes - 1 /\ \A i \in 1..Len(g) : g[i].u = i /\ g[i].v = i + 1

LinePath == [i \in 1..NumNodes |-> i]

\* C4: on a line of NumNodes = 6 nodes with one 350 kW station at an intermediate node, where
\* driving the line without charging violates the SOC limits, the solution of the
\* energy-only weight set (0, 1, 0) holds exactly one charging event, at that
\* station, and its SOC stays within [min_soc, max_soc] on every segment.
C4_LineWithStationChargesOnce ==
    (/\ pc = "done" /\ start_node = 1 /\ end_node = NumNodes
     /\ IsLine(G) /\ stationAt \in 2..(NumNodes - 1)
     /\ \E i \in 1..(NumNodes - 1) :
           ~soc_valid(compute_route_energy(G, LinePath, Pct(90)).segments[i].soc_after))
    => /\ solutions[2].path = LinePath
       /\ Len(ChargingEvents(solutions[2])) = 1
       /\ \A i \in 1..(NumNodes - 1) :
             soc_valid(compute_route_energy(G, solutions[2].path, Pct(90)).segments[i].soc_after)

\* C5: every segment record of compute_route_energy has
\* soc_after = soc_before - energy_kwh / battery_capacity_kwh, the first soc_before
\* is the initial SOC, each later soc_before is the previous soc_after, and the
\* total returned is the sum of the segments' energy_kwh.
C5_SocAccounting ==
    evaluated.called =>
        LET segs == evaluated.segments
            acc[i \in 0..Len(segs)] ==
                IF i = 0 THEN RZero ELSE RAdd(acc[i - 1], segs[i].energy_kwh)
        IN  /\ Len(segs) = Len(evaluated.path) - 1 \/ (evaluated.path = <<>> /\ segs = <<>>)
            /\ \A i \in 1..Len(segs) :
                  /\ segs[i].soc_after =
                        RSub(segs[i].soc_before,
                             RDiv(segs[i].energy_kwh, RInt(battery_capacity_kwh)))
                  /\ segs[i].soc_before =
                        IF i = 1 THEN evaluated.initial_soc ELSE segs[i - 1].soc_after
            /\ evaluated.total_energy_kwh = acc[Len(segs)]

\* a route of several segments, one of them regenerating, has been evaluated
C5_Witness ==
    /\ evaluated.called
    /\ Len(evaluated.segments) >= 3
    /\ \E i \in 1..Len(evaluated.segments) : RLt(evaluated.segments[i].energy_kwh, RZero)
    /\ \E i \in 1..Len(evaluated.segments) : RLt(RZero, evaluated.segments[i].energy_kwh)

-----------------------------------------------------------------------------
(* Properties of the energy model, checked under SpecTruck                 *)

C15_DegenerateEdgeRejected ==
    \A t \in Evaluations :
        (/\ evals[t].pc \in {"returned", "raised"}
         /\ (evals[t].edge_length_m = 0 \/ evals[t].speed_mps = 0))
        => (evals[t].pc = "raised" /\ evals[t].error = "DataError")

\* C18: whatever the interleaving of the evaluations, each of them gets the edge
\* energy it would get when run alone: compute_edge_energy of its own arguments.
C18_InterleavingKeepsEnergies ==
    \A t \in Evaluations :
        evals[t].pc = "returned" =>
            evals[t].energy = compute_edge_energy(RInt(evals[t].edge_length_m),
                                                  RInt(evals[t].speed_mps),
                                                  Pct(evals[t].gradient), evals[t].temp_c)

\* C19: no step of a compute_edge_energy call changes a field of the model; the
\* only field that is not a constant of the vehicle is temperature_loss_factor.
C19_ModelFieldsUnchanged ==
    [][temperature_loss_factor' = temperature_loss_factor]_vars

-----------------------------------------------------------------------------
(* Properties of the route search (continued), checked under Spec          *)

\* the weight of an edge as the search strategy states it, for the energy
\* kwh_per_km * length and the CO2 intensity kg_per_kwh; w is in percent
StatedEdgeWeight(w, data, kwh_per_km, kg_per_kwh) ==
    LET hours  == Rat(data.length, 1000 * data.speed_kph)
        energy == RMul(Rat(data.length, 1000), kwh_per_km)
    IN  RDiv(RAdd(RAdd(RMul(RInt(w[1]), hours), RMul(RInt(w[2]), energy)),
                  RMul(RInt(w[3]), RMul(energy, kg_per_kwh))),
             RInt(100))

\* the least stated weight of a route: per hop the lightest of the parallel edges
StatedRouteWeight(g, w, route, kwh_per_km, kg_per_kwh) ==
    LET hop[i \in 1..Len(route)] ==
            IF i = Len(route) THEN RZero
            ELSE LET datas == get_edge_data(g, route[i], route[i + 1])
                     ws    == {StatedEdgeWeight(w, datas[j], kwh_per_km, kg_per_kwh) :
                                   j \in 1..Len(datas)}
                 IN  RAdd(CHOOSE x \in ws : \A y \in ws : RLe(x, y), hop[i + 1])
    IN  hop[1]

\* route leads from origin to destination along edges of g
IsRoute(g, route, origin, destination) ==
    /\ route # <<>>
    /\ route[1] = origin /\ route[Len(route)] = destination
    /\ \A i \in 1..(Len(route) - 1) : HasEdge(g, route[i], route[i + 1])

\* path is a route of least stated weight
IsLightestRoute(g, w, path, origin, destination, kwh_per_km, kg_per_kwh) ==
    /\ IsRoute(g, path, origin, destination)
    /\ \A q \in PathsFrom(g, <<origin>>, destination) :
          RLe(StatedRouteWeight(g, w, path, kwh_per_km, kg_per_kwh),
              StatedRouteWeight(g, w, q, kwh_per_km, kg_per_kwh))

\* destination can be reached from origin in g
Reachable(g, origin, destination) ==
    /\ origin \in Nodes /\ destination \in Nodes
    /\ PathsFrom(g, <<origin>>, destination) # {}

\* C16: when the destination is reachable, the path found for a weight vector
\* (w_time, w_energy, w_emissions) leads from origin to destination and its sum
\* of edge weights w_time * (length / speed) + w_energy * energy +
\* w_emissions * (energy * CO2 intensity), energy being the search's estimate of
\* the edge (1.45 kWh/km in run_nsga, 1.4 kWh/km in optimize_route), is least among
\* all paths from origin to destination.
C16_PathMinimisesWeightedSum ==
    /\ Reachable(G, start_node, end_node) =>
          \A k \in 1..Len(solutions) :
              IsLightestRoute(G, weight_sets[k], solutions[k].path, start_node, end_node,
                              Rat(145, 100), Rat(42, 100))
    /\ (optimized.called /\ Reachable(G, optimized.origin_node, optimized.dest_node)) =>
          /\ optimized.error = ""
          /\ IsLightestRoute(G, optimized.w, optimized.path, optimized.origin_node,
                             optimized.dest_node, Rat(14, 10), Rat(42, 100))

\* two routes lead to the destination, and the time-only and the energy-only
\* weight vectors have chosen different ones
C16_Witness ==
    /\ pc = "done"
    /\ Cardinality(PathsFrom(G, <<start_node>>, end_node)) >= 2
    /\ solutions[1].path # solutions[2].path
    /\ solutions[1].path # <<>> /\ solutions[2].path # <<>>

\* C17: no step of a route search changes the caller's graph (nodes, edges and
\* edge attributes; no edge gains a 'weight') or the station catalog.
C17_SearchLeavesGraphUnchanged ==
    [][G' = G /\ stationAt' = stationAt /\ mgr' = mgr]_vars

\* a search has run to its end on a graph whose edges still carry no weight
C17_Witness ==
    /\ pc = "done"
    /\ Len(result) >= 1 /\ result[1].path # <<>>
    /\ \A i \in 1..Len(G) : DOMAIN G[i] = {"u", "v", "length", "speed_kph", "grade"}

-----------------------------------------------------------------------------
(* Property of the SOC-constrained formulation, checked under SpecScript   *)

\* C20: once the script has gone past the statement of its formulation it holds a
\* plan in which no energy is charged at a waypoint farther than 5 km from every
\* station, soc follows soc[i] = soc[i-1] - energy_use[i-1] + charge[i-1] from
\* SOC_MAX, and soc stays within [SOC_MIN, SOC_MAX] at every waypoint.
C20_ChargingOnlyNearStations ==
    script.pc \notin {"start", "model"} =>
        /\ script.pc = "solved"
        /\ Len(script.soc) = Len(script.route_points)
        /\ Len(script.charge) = Len(script.route_points)
        /\ \A i \in 1..Len(script.route_points) :
              /\ charging_station_rule(script.route_points, script.charge, i)
              /\ soc_rule(script.soc, script.charge, script.energy_use, i)
              /\ RLe(SOC_MIN, script.soc[i]) /\ RLe(script.soc[i], SOC_MAX)

-----------------------------------------------------------------------------
(* Further property of the route search, checked under Spec                *)

\* the lengths in metres a route may have, by the choice among parallel edges
RouteLengthsM(g, route) ==
    LET len[i \in 1..Len(route)] ==
            IF i = Len(route) THEN {0}
            ELSE LET datas == get_edge_data(g, route[i], route[i + 1])
                 IN  { datas[j].length + rest : j \in 1..Len(datas), rest \in len[i + 1] }
    IN  len[1]

\* C21: every solution run_nsga(start, end) returns has a path from start to end
\* along edges of the graph, energy = path length in km * consumption per km,
\* cost = 0.32 * energy and co2 = 0.42 * energy; at most 5 solutions are returned.
C21_SolutionsAreRoutesWithMetrics ==
    pc = "done" =>
        /\ Len(result) \in 0..5
        /\ \A j \in 1..Len(result) :
              /\ IsRoute(G, result[j].path, start_node, end_node)
              /\ \E m \in RouteLengthsM(G, result[j].path) :
                    result[j].energy = RMul(Rat(m, 1000), Rat(145, 100))
              /\ result[j].cost = RMul(Rat(32, 100), result[j].energy)
              /\ result[j].co2 = RMul(Rat(42, 100), result[j].energy)

-----------------------------------------------------------------------------
(* Further property of the charging model, checked under SpecCharging      *)

\* C22: at one charger power and for SOCs a <= b <= c, the time of the session
\* a -> c is the time of a -> b plus the time of b -> c, b below, at or above the
\* CC cutoff; and for a session a -> c the energy of its CC phase plus the energy
\* of its CV phase is (c - a) * battery capacity, the energy
\* simulate_charging_event reports.  (Exact arithmetic: up to float rounding.)
C22_TimeAdditiveEnergyConserved ==
    (lastTime.called /\ lastEvent.called) =>
        LET a == lastTime.soc_initial
            b == lastTime.soc_target
            c == lastEvent.soc_target
            P == lastTime.power
        IN  /\ (lastEvent.soc_initial = b /\ RLe(a, b) /\ RLe(b, c) /\ lastEvent.power = P)
                  => charging_time_minutes(a, c, P) =
                        RAdd(lastTime.minutes, lastEvent.charging_minutes)
            /\ (lastEvent.soc_initial = a /\ c = b /\ RLe(a, b) /\ lastEvent.power = P)
                  => LET cc_kwh == RMul(lastTime.time_hours_cc, RMul(RInt(P), cc_efficiency))
                         cv_kwh == RMul(lastTime.time_hours_cv,
                                        RMul(RMul(RInt(P), Pct(40)), cv_efficiency))
                     IN  /\ RAdd(cc_kwh, cv_kwh) = lastEvent.energy_added_kwh
                         /\ lastEvent.energy_added_kwh =
                               RMul(RSub(b, a), RInt(charger_battery_capacity_kwh))

\* a session that crosses the cutoff has been split below the cutoff
C22_Witness ==
    /\ lastTime.called /\ lastEvent.called
    /\ lastTime.soc_initial = Pct(20) /\ lastTime.soc_target = Pct(50)
    /\ lastEvent.soc_initial = Pct(50) /\ lastEvent.soc_target = Pct(90)
    /\ RLt(RZero, lastTime.minutes) /\ RLt(lastTime.minutes, lastEvent.charging_minutes)

=============================================================================
